---------------------------- MODULE Spec2Model ----------------------------
(***************************************************************************)
(* TalentMatch-AI: the scoring engine and ranking pipeline of              *)
(* utils/jobs_matcher.py (class JobMatcher), the PDF text extraction of    *)
(* utils/pdf_handler.py, the résumé analysis of utils/groq_analyzer.py     *)
(* and the application flow of app.py.                                     *)
(*                                                                         *)
(* Representation.                                                         *)
(*  - A Python str is a sequence of one-character strings.                 *)
(*  - float NaN and None, the two values pd.isna accepts, are NaN and None.*)
(*  - A Python float score is an exact rational: a field score s is the    *)
(*    integer s * ScoreUnit, an overall score o is o * OverallUnit.        *)
(*  - résumé years are counted in tenths of a year: Years(n) is n years.   *)
(*  - a value parsed from the model's JSON reply carries its Python type  *)
(*    (JNum, JStr, JList, JDict, JNull); a dict is a function of its keys. *)
(***************************************************************************)
EXTENDS Integers, Sequences, FiniteSets, TLC

VARIABLES
    pc,           \* position of the operation under way
    resume_data,  \* the ResumeProfile dict handed to the matcher
    jobs_df,      \* JobMatcher.jobs_df: the catalog, a sequence of rows
    top_n,        \* finding_matching_jobs argument
    min_score,    \* finding_matching_jobs argument
    idx,          \* rows of jobs_df already iterated
    results,      \* finding_matching_jobs' local list `results`
    ret,          \* value returned by finding_matching_jobs
    call,         \* arguments of the pure function being applied
    retval,       \* its return value
    app           \* app.py: what the script has called and shown

vars == <<pc, resume_data, jobs_df, top_n, min_score, idx, results, ret,
          call, retval, app>>

---------------------------------------------------------------------------
(* Python values *)

NaN == <<"<NaN>">>
None == <<"<None>">>

isna(x) == x = NaN \/ x = None

\* str(x): a str is itself, float NaN prints as "nan", None as "None"
Str(x) ==
    IF x = NaN THEN <<"n", "a", "n">>
    ELSE IF x = None THEN <<"N", "o", "n", "e">>
    ELSE x

UpperChars == <<"A","B","C","D","E","F","G","H","I","J","K","L","M",
                "N","O","P","Q","R","S","T","U","V","W","X","Y","Z">>
LowerChars == <<"a","b","c","d","e","f","g","h","i","j","k","l","m",
                "n","o","p","q","r","s","t","u","v","w","x","y","z">>

UpperSet == {UpperChars[i] : i \in 1..Len(UpperChars)}
LowerOf == [c \in UpperSet |->
               LowerChars[CHOOSE i \in 1..Len(UpperChars) : UpperChars[i] = c]]

LowerChar(c) == IF c \in UpperSet THEN LowerOf[c] ELSE c

\* str.lower()
Lower(s) == [i \in 1..Len(s) |-> LowerChar(s[i])]

Whitespace == {" ", "\n", "\t", "\r"}

\* `sub in text`
Contains(text, sub) ==
    \E i \in 0..(Len(text) - Len(sub)) :
        \A j \in 1..Len(sub) : text[i + j] = sub[j]

\* text[:n] for n >= 0
Prefix(text, n) == SubSeq(text, 1, IF n < Len(text) THEN n ELSE Len(text))

\* text.split('\n')[0]
FirstLine(text) ==
    IF \E i \in 1..Len(text) : text[i] = "\n"
    THEN LET nl == CHOOSE i \in 1..Len(text) :
                      /\ text[i] = "\n"
                      /\ \A j \in 1..(i - 1) : text[j] # "\n"
         IN  SubSeq(text, 1, nl - 1)
    ELSE text

\* str.strip()
Strip(text) ==
    LET keep == {i \in 1..Len(text) : text[i] \notin Whitespace}
    IN  IF keep = {} THEN <<>>
        ELSE LET lo == CHOOSE i \in keep : \A j \in keep : i <= j
                 hi == CHOOSE i \in keep : \A j \in keep : j <= i
             IN  SubSeq(text, lo, hi)

\* set(text.split()): the maximal runs of non-whitespace characters
WordSet(text) ==
    LET n == Len(text)
        IsStart(b) == /\ text[b] \notin Whitespace
                      /\ (b = 1 \/ text[b - 1] \in Whitespace)
        IsEnd(e) == /\ text[e] \notin Whitespace
                    /\ (e = n \/ text[e + 1] \in Whitespace)
        EndOf(b) == CHOOSE e \in b..n :
                        IsEnd(e) /\ \A k \in b..(e - 1) : ~IsEnd(k)
    IN  {SubSeq(text, b, EndOf(b)) : b \in {i \in 1..n : IsStart(i)}}

\* " ".join(parts)
RECURSIVE JoinSpace(_)
JoinSpace(parts) ==
    IF Len(parts) = 0 THEN <<>>
    ELSE IF Len(parts) = 1 THEN parts[1]
    ELSE parts[1] \o <<" ">> \o JoinSpace(Tail(parts))

---------------------------------------------------------------------------
(* Units of the exact-rational reading of the float scores *)

ScoreUnit == 60 * 100                 \* a field score of 1.0
OverallUnit == 100 * ScoreUnit        \* an overall score of 1.0
Pct(p) == p * (ScoreUnit \div 100)    \* the field score p/100
Years(n) == n * 10                    \* n years, in tenths of a year

---------------------------------------------------------------------------
(* JobMatcher.extract_title_from_description *)

ScanLimit == 200
TitleLimit == 100

UnknownPosition == <<"U","n","k","n","o","w","n"," ","P","o","s","i","t","i","o","n">>

\* the first line truncated before it is trimmed
extract_title_from_description_CutFirst(description) ==
    IF isna(description) THEN UnknownPosition
    ELSE LET first_part == Prefix(Str(description), ScanLimit)
             line0 == FirstLine(first_part)
         IN  Strip(Prefix(line0, TitleLimit))

extract_title_from_description(description) ==
    IF isna(description) THEN UnknownPosition
    ELSE LET first_part == Prefix(Str(description), ScanLimit)
             line0 == FirstLine(first_part)
         IN  Prefix(Strip(line0), TitleLimit)

---------------------------------------------------------------------------
(* JobMatcher.calculate_skill_match *)

\* `job_keywords and not pd.isna(job_keywords)`
KeywordsUsable(job_keywords) ==
    /\ job_keywords # None
    /\ job_keywords # <<>>
    /\ ~isna(job_keywords)

calculate_skill_match(resume_skills, job_description, job_title, job_keywords) ==
    IF resume_skills = <<>> THEN 0
    ELSE LET text_parts ==
                 <<Str(job_description), Str(job_title)>> \o
                 (IF KeywordsUsable(job_keywords)
                  THEN <<Str(job_keywords)>> ELSE <<>>)
             combined_text == Lower(JoinSpace(text_parts))
             matched_count ==
                 Cardinality({i \in 1..Len(resume_skills) :
                     Contains(combined_text, Lower(resume_skills[i]))})
         IN  (matched_count * ScoreUnit) \div Len(resume_skills)

---------------------------------------------------------------------------
(* JobMatcher.estimate_experience_level *)

L_Internship == <<"I","n","t","e","r","n","s","h","i","p">>
L_Entry == <<"E","n","t","r","y"," ","l","e","v","e","l">>
L_Associate == <<"A","s","s","o","c","i","a","t","e">>
L_MidSenior == <<"M","i","d","-","S","e","n","i","o","r"," ","l","e","v","e","l">>
L_Director == <<"D","i","r","e","c","t","o","r">>
L_Executive == <<"E","x","e","c","u","t","i","v","e">>

InternWords ==
    { <<"i","n","t","e","r","n">>,
      <<"i","n","t","e","r","n","s","h","i","p">> }
EntryWords ==
    { <<"e","n","t","r","y"," ","l","e","v","e","l">>,
      <<"j","u","n","i","o","r">>,
      <<"g","r","a","d","u","a","t","e">>,
      <<"a","s","s","o","c","i","a","t","e">> }
SeniorWords ==
    { <<"s","e","n","i","o","r">>,
      <<"s","r",".">>,
      <<"l","e","a","d">>,
      <<"p","r","i","n","c","i","p","a","l">> }
DirectorWords ==
    { <<"d","i","r","e","c","t","o","r">>,
      <<"h","e","a","d"," ","o","f">>,
      <<"v","p">>,
      <<"v","i","c","e"," ","p","r","e","s","i","d","e","n","t">> }
ExecutiveWords ==
    { <<"c","h","i","e","f">>,
      <<"c","t","o">>,
      <<"c","e","o">>,
      <<"e","x","e","c","u","t","i","v","e">> }

\* any(word in combined for word in words)
AnyIn(combined, words) == \E word \in words : Contains(combined, word)

\* the Entry-level and senior tests taken in the other order
estimate_experience_level_SeniorFirst(job_description, job_title) ==
    LET d == IF isna(job_description) THEN <<>> ELSE job_description
        t == IF isna(job_title) THEN <<>> ELSE job_title
        combined == Lower(Str(d) \o <<" ">> \o Str(t))
    IN  IF AnyIn(combined, InternWords) THEN L_Internship
        ELSE IF AnyIn(combined, SeniorWords) THEN L_MidSenior
        ELSE IF AnyIn(combined, EntryWords) THEN L_Entry
        ELSE IF AnyIn(combined, DirectorWords) THEN L_Director
        ELSE IF AnyIn(combined, ExecutiveWords) THEN L_Executive
        ELSE L_MidSenior

estimate_experience_level(job_description, job_title) ==
    LET d == IF isna(job_description) THEN <<>> ELSE job_description
        t == IF isna(job_title) THEN <<>> ELSE job_title
        combined == Lower(Str(d) \o <<" ">> \o Str(t))
    IN  IF AnyIn(combined, InternWords) THEN L_Internship
        ELSE IF AnyIn(combined, EntryWords) THEN L_Entry
        ELSE IF AnyIn(combined, SeniorWords) THEN L_MidSenior
        ELSE IF AnyIn(combined, DirectorWords) THEN L_Director
        ELSE IF AnyIn(combined, ExecutiveWords) THEN L_Executive
        ELSE L_MidSenior

---------------------------------------------------------------------------
(* JobMatcher.calculate_experience_match *)

level_ranges ==
    (L_Internship :> <<Years(0), Years(1)>>) @@
    (L_Entry      :> <<Years(0), Years(2)>>) @@
    (L_Associate  :> <<Years(1), Years(3)>>) @@
    (L_MidSenior  :> <<Years(3), Years(8)>>) @@
    (L_Director   :> <<Years(8), Years(15)>>) @@
    (L_Executive  :> <<Years(15), Years(30)>>)

\* the steps below min with strict comparisons
BelowScore_Strict(gap) ==
    IF gap * 2 < Years(1) THEN Pct(95)
    ELSE IF gap < Years(1) THEN Pct(85)
    ELSE IF gap * 2 < Years(3) THEN Pct(70)
    ELSE IF gap < Years(2) THEN Pct(55)
    ELSE Pct(30)

\* the branch taken when resume_years < min_years
BelowScore(gap) ==
    IF gap * 2 <= Years(1) THEN Pct(95)
    ELSE IF gap <= Years(1) THEN Pct(85)
    ELSE IF gap * 2 <= Years(3) THEN Pct(70)
    ELSE IF gap <= Years(2) THEN Pct(55)
    ELSE Pct(30)

\* the branch taken when resume_years > max_years
AboveScore(gap) ==
    IF gap <= Years(1) THEN Pct(90)
    ELSE IF gap <= Years(2) THEN Pct(75)
    ELSE IF gap <= Years(3) THEN Pct(60)
    ELSE Pct(40)

calculate_experience_match(resume_years, job_level) ==
    IF isna(job_level) \/ job_level = <<>> THEN Pct(50)
    ELSE IF job_level \notin DOMAIN level_ranges THEN Pct(50)
    ELSE LET min_years == level_ranges[job_level][1]
             max_years == level_ranges[job_level][2]
         IN  IF min_years <= resume_years /\ resume_years <= max_years
             THEN Pct(100)
             ELSE IF resume_years < min_years
             THEN BelowScore(min_years - resume_years)
             ELSE AboveScore(resume_years - max_years)

---------------------------------------------------------------------------
(* JobMatcher.calculate_title_match *)

\* the body of `for desired in resume_desired_roles`, with its two returns
RECURSIVE TitleScan(_, _)
TitleScan(job_title, roles) ==
    IF roles = <<>> THEN Pct(30)
    ELSE LET desired_words == WordSet(Lower(Head(roles)))
             title_words == WordSet(job_title)
             common_words == desired_words \cap title_words
         IN  IF Cardinality(common_words) >= 2 THEN Pct(100)
             ELSE IF Cardinality(common_words) = 1 THEN Pct(70)
             ELSE TitleScan(job_title, Tail(roles))

calculate_title_match(job_title, resume_desired_roles) ==
    IF resume_desired_roles = <<>> \/ isna(job_title) THEN Pct(50)
    ELSE TitleScan(Lower(Str(job_title)), resume_desired_roles)

---------------------------------------------------------------------------
(* JobMatcher.calculate_overall_score *)

\* dict.get(key, default)
Get(d, key, default) == IF key \in DOMAIN d THEN d[key] ELSE default

\* lines 173-178: the title the scorers see
ResolveTitle(job_row) ==
    LET job_title == Get(job_row, "category", None)
    IN  IF isna(job_title) \/ job_title = <<>>
        THEN extract_title_from_description(Get(job_row, "job_description", None))
        ELSE job_title

\* the skill and experience weights exchanged
weights_Swapped == [skills |-> 30, experience |-> 50, title |-> 20]

weights == [skills |-> 50, experience |-> 30, title |-> 20]

\* lines 183-187: the call passes no job_keywords (the parameter keeps its
\* default, None)
SkillScoreOf(resume_data_, job_description, job_title, job_row) ==
    calculate_skill_match(resume_data_["skills"], job_description, job_title, None)

calculate_overall_score(resume_data_, job_row) ==
    LET job_description == Get(job_row, "job_description", None)
        job_title == ResolveTitle(job_row)
        estimated_level == estimate_experience_level(job_description, job_title)
        skill_score == SkillScoreOf(resume_data_, job_description, job_title, job_row)
        exp_score == calculate_experience_match(
                         resume_data_["experience_years"], estimated_level)
        title_score == calculate_title_match(
                           job_title, Get(resume_data_, "desired_roles", <<>>))
    IN  [ overall |-> skill_score * weights.skills
                      + exp_score * weights.experience
                      + title_score * weights.title,
          skill_score |-> skill_score,
          exp_score |-> exp_score,
          title_score |-> title_score,
          estimated_level |-> estimated_level ]

---------------------------------------------------------------------------
(* Inputs of the ranking pipeline *)

MaxCatalog == 3     \* longest catalog
MaxTopN == 3        \* largest top_n
NegTopN == 1        \* top_n ranges from -NegTopN

T_DataEngineer == <<"D","a","t","a"," ","E","n","g","i","n","e","e","r">>
D_SeniorPython == <<"S","e","n","i","o","r"," ","P","y","t","h","o","n"," ","d","e","v","e","l","o","p","e","r">>
K_SqlSpark == <<"s","q","l",","," ","s","p","a","r","k">>
D_JuniorJava == <<"J","u","n","i","o","r"," ","J","a","v","a"," ","D","e","v","e","l","o","p","e","r","\n","S","Q","L"," ","n","e","e","d","e","d">>
K_Python == <<"p","y","t","h","o","n">>
S_Python == <<"P","y","t","h","o","n">>
S_SQL == <<"S","Q","L">>
S_Spark == <<"s","p","a","r","k">>
R_DataEngineer == <<"S","e","n","i","o","r"," ","D","a","t","a"," ","E","n","g","i","n","e","e","r">>
R_JavaDev == <<"J","a","v","a"," ","D","e","v","e","l","o","p","e","r">>
R_Analyst == <<"D","a","t","a"," ","A","n","a","l","y","s","t">>
C_Acme == <<"a","c","m","e">>
C_Beta == <<"b","e","t","a">>
C_Gamma == <<"g","a","m","m","a">>
Loc == <<"r","e","m","o","t","e">>
Link1 == <<"h","t","t","p",":","/","/","a">>

JobRow(category, job_description, keywords, company) ==
    [ category |-> category, job_description |-> job_description,
      keywords |-> keywords, company |-> company,
      location |-> Loc, post_link |-> Link1 ]

\* a titled posting whose keywords add text, an untitled one, and one with
\* neither title nor description
JobPool ==
    { JobRow(T_DataEngineer, D_SeniorPython, K_SqlSpark, C_Acme),
      JobRow(NaN, D_JuniorJava, NaN, C_Beta),
      JobRow(<<>>, NaN, K_Python, C_Gamma) }

Profile(skills, experience_years, desired_roles) ==
    [ skills |-> skills, experience_years |-> experience_years,
      desired_roles |-> desired_roles, career_level |-> <<"M","i","d">> ]

ProfilePool ==
    { Profile(<<S_Python, S_SQL>>, Years(5), <<R_DataEngineer>>),
      Profile(<<>>, Years(5), <<>>),
      Profile(<<S_Spark>>, Years(1), <<R_Analyst, R_JavaDev>>) }

Catalogs == UNION {[1..n -> JobPool] : n \in 0..MaxCatalog}

\* thresholds, in tenths of 1.0, from "everything passes" to "nothing can"
MinScores == {(t * OverallUnit) \div 10 : t \in {0, 3, 4, 8, 11}}

---------------------------------------------------------------------------
(* JobMatcher.finding_matching_jobs *)

\* the comparison of line 243 made strict
MeetsThreshold_Strict(overall, min_score_) == overall > min_score_

\* line 243
MeetsThreshold(overall, min_score_) == overall >= min_score_

\* lines 244-260: the dict appended to `results`
ResultRow(job, scores) ==
    [ title |-> ResolveTitle(job),
      company |-> Get(job, "company", None),
      location |-> Get(job, "location", None),
      experience_level |-> scores.estimated_level,
      description |-> Get(job, "job_description", None),
      post_link |-> Get(job, "post_link", None),
      keywords |-> Get(job, "keywords", None),
      match_score |-> scores.overall,
      skill_score |-> scores.skill_score,
      exp_score |-> scores.exp_score,
      title_score |-> scores.title_score ]

\* pd.DataFrame(results): the rows get the labels 0, 1, ... of a RangeIndex
DataFrame(rows) ==
    [i \in 1..Len(rows) |-> rows[i] @@ [index |-> i - 1]]

IsDescending(df) ==
    \A i \in 1..Len(df) : \A j \in 1..Len(df) :
        i < j => df[i].match_score >= df[j].match_score

\* the sort with ascending left at its default, True
sort_values_Ascending(df) ==
    { s \in { [i \in 1..Len(df) |-> df[p[i]]] : p \in Permutations(1..Len(df)) } :
        \A i \in 1..Len(s) : \A j \in 1..Len(s) :
            i < j => s[i].match_score <= s[j].match_score }

\* results_df.sort_values('match_score', ascending=False): kind is left at
\* pandas' default, 'quicksort', which is documented as not stable, so every
\* descending arrangement of the rows is a possible outcome.  (numpy's
\* quicksort happens to keep ties in order on very short arrays; the short
\* catalogs here stand for catalogs of any length, so the model takes the
\* documented contract, not the behaviour at that size.)
sort_values(df) ==
    { s \in { [i \in 1..Len(df) |-> df[p[i]]] : p \in Permutations(1..Len(df)) } :
        IsDescending(s) }

\* the truncation left out: the whole sorted frame is returned
head_All(df, n) == df

\* DataFrame.head(n): the first n rows; for n < 0 all but the last -n rows
head(df, n) ==
    IF n >= 0 THEN Prefix(df, n)
    ELSE Prefix(df, IF Len(df) + n > 0 THEN Len(df) + n ELSE 0)

\* one iteration of `for idx, job in self.jobs_df.iterrows()`
ScoreRow ==
    /\ pc = "loop"
    /\ idx < Len(jobs_df)
    /\ LET job == jobs_df[idx + 1]
           scores == calculate_overall_score(resume_data, job)
       IN  results' = IF MeetsThreshold(scores.overall, min_score)
                      THEN Append(results, ResultRow(job, scores))
                      ELSE results
    /\ idx' = idx + 1
    /\ UNCHANGED <<pc, resume_data, jobs_df, top_n, min_score, ret, call, retval, app>>

\* lines 262-265: nothing passed, an empty DataFrame is returned
ReturnEmpty ==
    /\ pc = "loop"
    /\ idx = Len(jobs_df)
    /\ Len(results) = 0
    /\ ret' = <<>>
    /\ pc' = "done"
    /\ UNCHANGED <<resume_data, jobs_df, top_n, min_score, idx, results, call, retval, app>>

\* lines 267-274
SortAndHead ==
    /\ pc = "loop"
    /\ idx = Len(jobs_df)
    /\ Len(results) # 0
    /\ \E results_df \in sort_values(DataFrame(results)) :
           ret' = head(results_df, top_n)
    /\ pc' = "done"
    /\ UNCHANGED <<resume_data, jobs_df, top_n, min_score, idx, results, call, retval, app>>

Idle == <<>>

Init ==
    /\ pc = "loop"
    /\ resume_data \in ProfilePool
    /\ jobs_df \in Catalogs
    /\ top_n \in (0 - NegTopN)..MaxTopN
    /\ min_score \in MinScores
    /\ idx = 0
    /\ results = <<>>
    /\ ret = <<>>
    /\ call = Idle
    /\ retval = Idle
    /\ app = Idle

Next == ScoreRow \/ ReturnEmpty \/ SortAndHead

Spec == Init /\ [][Next]_vars

---------------------------------------------------------------------------
(* Claims about finding_matching_jobs, under Spec *)

\* the overall score calculate_overall_score gives each profile and posting
OverallTable ==
    [p \in ProfilePool |->
        [j \in JobPool |-> calculate_overall_score(p, j).overall]]

\* the overall score of every catalog row
Overalls ==
    [i \in 1..Len(jobs_df) |-> OverallTable[resume_data][jobs_df[i]]]

\* the catalog rows whose overall score reaches min_score
PassingOf(overalls) == {i \in DOMAIN overalls : overalls[i] >= min_score}

PassingRows == PassingOf(Overalls)

\* the k-th element of a set of row numbers, in catalog order
Nth(rows, k) ==
    CHOOSE i \in rows : Cardinality({j \in rows : j < i}) = k - 1

Min(a, b) == IF a <= b THEN a ELSE b

\* C1: every returned result has overall score >= min_score, and once the
\* catalog has been iterated the rows kept for sorting are exactly the
\* postings whose overall score is >= min_score, in catalog order (so every
\* posting left out scores < min_score).
C1_ThresholdRespected ==
    /\ pc = "done" => \A k \in 1..Len(ret) : ret[k].match_score >= min_score
    /\ idx = Len(jobs_df) =>
          LET overalls == Overalls
              passing == PassingOf(overalls)
          IN  /\ Len(results) = Cardinality(passing)
              /\ \A k \in 1..Len(results) :
                    LET i == Nth(passing, k)
                    IN  /\ results[k].match_score = overalls[i]
                        /\ results[k].description = jobs_df[i].job_description
                        /\ results[k].company = jobs_df[i].company
              /\ \A i \in (1..Len(jobs_df)) \ passing : overalls[i] < min_score

\* a finished run that kept one posting scoring exactly min_score and left
\* another out
C1_Witness ==
    /\ pc = "done"
    /\ Len(ret) > 0
    /\ LET overalls == Overalls
       IN  /\ \E i \in PassingOf(overalls) : overalls[i] = min_score
           /\ PassingOf(overalls) # 1..Len(jobs_df)

\* C2 (as amended): the number of results is min(top_n, number of postings
\* meeting the threshold) for top_n >= 0, and max(0, that number + top_n)
\* for top_n < 0; it is 0 when no posting meets the threshold.
C2_LengthAmended ==
    pc = "done" =>
        LET count == Cardinality(PassingRows)
        IN  /\ top_n >= 0 => Len(ret) = Min(top_n, count)
            /\ top_n < 0 => Len(ret) = (IF count + top_n > 0 THEN count + top_n ELSE 0)
            /\ count = 0 => Len(ret) = 0

\* a finished run in which top_n cut the passing postings short
C2_Witness ==
    /\ pc = "done"
    /\ top_n > 0
    /\ top_n < Cardinality(PassingRows)
    /\ Len(ret) = top_n

\* C2 as stated: the length is min(top_n, count) for every integer top_n
C2_LengthOriginal ==
    pc = "done" => Len(ret) = Min(top_n, Cardinality(PassingRows))

\* C3 (as amended): the returned sequence is ordered by overall score
\* descending, and it holds each kept row at most once (rows of equal score
\* in either order).
C3_DescendingAmended ==
    pc = "done" =>
        /\ \A i \in 1..Len(ret) : \A j \in 1..Len(ret) :
              i < j => ret[i].match_score >= ret[j].match_score
        /\ \A i \in 1..Len(ret) : \A j \in 1..Len(ret) :
              i # j => ret[i].index # ret[j].index
        /\ \A i \in 1..Len(ret) :
              /\ ret[i].index \in 0..(Len(results) - 1)
              /\ ret[i].match_score = results[ret[i].index + 1].match_score

\* a finished run whose result holds rows of different scores and a later
\* catalog row ahead of an earlier one
C3_Witness ==
    /\ pc = "done"
    /\ \E i \in 1..Len(ret) : \E j \in 1..Len(ret) :
          /\ i < j
          /\ ret[i].match_score > ret[j].match_score
          /\ ret[i].index > ret[j].index

\* C3 as stated: descending, and rows of equal score in catalog order
C3_StableOriginal ==
    pc = "done" =>
        \A i \in 1..Len(ret) : \A j \in 1..Len(ret) :
            i < j =>
                /\ ret[i].match_score >= ret[j].match_score
                /\ ret[i].match_score = ret[j].match_score
                       => ret[i].index < ret[j].index

---------------------------------------------------------------------------
(* calculate_overall_score applied to one profile and one posting *)

MaxSkills == 2      \* longest skill list

T_VPData == <<"V","P"," ","o","f"," ","D","a","t","a">>
D_HeadAnalytics == <<"H","e","a","d"," ","o","f"," ","a","n","a","l","y","t","i","c","s",","," ","s","q","l">>
T_Chief == <<"C","h","i","e","f"," ","D","a","t","a"," ","O","f","f","i","c","e","r">>
D_Exec == <<"E","x","e","c","u","t","i","v","e"," ","r","o","l","e">>
T_Intern == <<"D","a","t","a"," ","I","n","t","e","r","n">>
D_Internship == <<"p","y","t","h","o","n"," ","i","n","t","e","r","n","s","h","i","p">>

SkillPool == {S_Python, S_SQL, S_Spark}

SkillLists == UNION {[1..n -> SkillPool] : n \in 0..MaxSkills}

ScoreProfiles ==
    { Profile(skills, years, roles) :
        skills \in SkillLists,
        years \in {Years(0), Years(1), Years(5) \div 2, Years(5), Years(12), Years(40)},
        roles \in {<<>>, <<R_DataEngineer>>, <<R_Analyst, R_JavaDev>>} }

ScorePostings ==
    JobPool \cup
    { JobRow(T_VPData, D_HeadAnalytics, NaN, C_Acme),
      JobRow(T_Chief, D_Exec, K_Python, C_Beta),
      JobRow(T_Intern, D_Internship, NaN, C_Gamma) }

InitScore ==
    /\ pc = "call"
    /\ resume_data \in ScoreProfiles
    /\ call \in ScorePostings
    /\ retval = Idle
    /\ jobs_df = Idle
    /\ top_n = 0
    /\ min_score = 0
    /\ idx = 0
    /\ results = Idle
    /\ ret = Idle
    /\ app = Idle

CalcOverall ==
    /\ pc = "call"
    /\ retval' = calculate_overall_score(resume_data, call)
    /\ pc' = "return"
    /\ UNCHANGED <<resume_data, jobs_df, top_n, min_score, idx, results, ret, call, app>>

NextScore == CalcOverall

SpecScore == InitScore /\ [][NextScore]_vars

\* C4: calculate_overall_score returns overall = 0.50*skill_score +
\* 0.30*exp_score + 0.20*title_score, each field score lies in [0,1] and so
\* does overall (overall is counted in OverallUnit = 100 * ScoreUnit, so the
\* weights appear as 50, 30 and 20).
C4_WeightedSum ==
    pc = "return" =>
        /\ retval.overall = 50 * retval.skill_score + 30 * retval.exp_score
                             + 20 * retval.title_score
        /\ retval.skill_score \in 0..ScoreUnit
        /\ retval.exp_score \in 0..ScoreUnit
        /\ retval.title_score \in 0..ScoreUnit
        /\ retval.overall \in 0..OverallUnit

\* a posting that scores 1.0 on every field, hence 1.0 overall
C4_Witness ==
    /\ pc = "return"
    /\ retval.skill_score = ScoreUnit
    /\ retval.exp_score = ScoreUnit
    /\ retval.title_score = ScoreUnit
    /\ retval.overall = OverallUnit

\* the skill score the claim describes: keywords join the text whenever the
\* posting has them
ClaimedSkillScore(profile, job_row) ==
    LET skills == profile.skills
        has_keywords == ~isna(job_row.keywords) /\ job_row.keywords # <<>>
        text == Lower(Str(job_row.job_description) \o <<" ">>
                      \o Str(ResolveTitle(job_row))
                      \o (IF has_keywords THEN <<" ">> \o job_row.keywords ELSE <<>>))
        matched == Cardinality({i \in 1..Len(skills) : Contains(text, Lower(skills[i]))})
    IN  IF Len(skills) = 0 THEN 0 ELSE (matched * ScoreUnit) \div Len(skills)

\* C6: the skill score of a posting in the pipeline counts the résumé skills
\* found in description + title + keywords (when the posting has keywords),
\* divided by the number of skills, and is 0.0 without skills.
C6_SkillCountsKeywords ==
    pc = "return" => retval.skill_score = ClaimedSkillScore(resume_data, call)

---------------------------------------------------------------------------
(* calculate_title_match applied to one title and one list of desired roles *)

MaxRoles == 3       \* longest desired_roles list

T_DataEngineerII == <<"D","a","t","a"," ","E","n","g","i","n","e","e","r"," ","I","I">>
T_JavaDev == <<"j","a","v","a"," ","d","e","v","e","l","o","p","e","r">>
T_Sales == <<"S","a","l","e","s"," ","L","e","a","d">>
R_Product == <<"P","r","o","d","u","c","t"," ","M","a","n","a","g","e","r">>

RolePool == {R_DataEngineer, R_JavaDev, R_Analyst, R_Product}

RoleLists == UNION {[1..n -> RolePool] : n \in 0..MaxRoles}

TitlePool == {NaN, T_DataEngineer, T_DataEngineerII, T_JavaDev, T_Sales}

InitTitleMatch ==
    /\ pc = "call"
    /\ call \in [job_title : TitlePool, resume_desired_roles : RoleLists]
    /\ retval = Idle
    /\ resume_data = Idle
    /\ jobs_df = Idle
    /\ top_n = 0
    /\ min_score = 0
    /\ idx = 0
    /\ results = Idle
    /\ ret = Idle
    /\ app = Idle

CalcTitleMatch ==
    /\ pc = "call"
    /\ retval' = calculate_title_match(call.job_title, call.resume_desired_roles)
    /\ pc' = "return"
    /\ UNCHANGED <<resume_data, jobs_df, top_n, min_score, idx, results, ret, call, app>>

NextTitleMatch == CalcTitleMatch

SpecTitleMatch == InitTitleMatch /\ [][NextTitleMatch]_vars

\* the words a desired role shares with the job title
CommonWords(job_title, desired) ==
    WordSet(Lower(desired)) \cap WordSet(Lower(job_title))

\* C5: for a title and a non-empty list of desired roles the result is 1.0
\* if any desired role, wherever it stands in the list, shares >= 2 words
\* with the title, 0.7 if none shares >= 2 but at least one shares exactly
\* 1, and 0.3 if none shares any word.
C5_BestRoleWins ==
    (pc = "return" /\ ~isna(call.job_title) /\ call.resume_desired_roles # <<>>) =>
        LET roles == call.resume_desired_roles
            shared == [i \in 1..Len(roles) |->
                          Cardinality(CommonWords(call.job_title, roles[i]))]
        IN  retval = IF \E i \in 1..Len(roles) : shared[i] >= 2 THEN Pct(100)
                     ELSE IF \E i \in 1..Len(roles) : shared[i] = 1 THEN Pct(70)
                     ELSE Pct(30)

---------------------------------------------------------------------------
(* estimate_experience_level applied to one description and one title *)

\* one keyword of each set, lowest priority first, so that a text's order
\* of words never agrees with the priority order
LevelMarkers ==
    << <<"C","E","O">>,
       <<"V","P">>,
       <<"S","e","n","i","o","r">>,
       <<"j","u","n","i","o","r">>,
       <<"i","n","t","e","r","n","s","h","i","p">> >>

W_Engineer == <<"D","a","t","a"," ","E","n","g","i","n","e","e","r">>
W_Entry == <<"G","r","e","a","t"," ","E","N","T","R","Y">>
T_LevelDesigner == <<"L","e","v","e","l"," ","D","e","s","i","g","n","e","r">>
T_LeadIntern == <<"L","e","a","d"," ","I","n","t","e","r","n">>
T_Internal == <<"I","n","t","e","r","n","a","l"," ","T","o","o","l","s">>

\* the markers chosen by `picked`, in LevelMarkers order, after a filler word
RECURSIVE MarkerText(_, _)
MarkerText(picked, i) ==
    IF i > Len(LevelMarkers) THEN <<>>
    ELSE (IF i \in picked THEN <<" ">> \o LevelMarkers[i] ELSE <<>>)
         \o MarkerText(picked, i + 1)

LevelDescriptions ==
    {NaN, <<>>, W_Entry} \cup
    {W_Engineer \o MarkerText(picked, 1) : picked \in SUBSET (1..Len(LevelMarkers))}

LevelTitles == {NaN, <<>>, T_DataEngineer, T_LevelDesigner, T_LeadIntern, T_Internal, T_VPData}

InitLevel ==
    /\ pc = "call"
    /\ call \in [job_description : LevelDescriptions, job_title : LevelTitles]
    /\ retval = Idle
    /\ resume_data = Idle
    /\ jobs_df = Idle
    /\ top_n = 0
    /\ min_score = 0
    /\ idx = 0
    /\ results = Idle
    /\ ret = Idle
    /\ app = Idle

EstimateLevel ==
    /\ pc = "call"
    /\ retval' = estimate_experience_level(call.job_description, call.job_title)
    /\ pc' = "return"
    /\ UNCHANGED <<resume_data, jobs_df, top_n, min_score, idx, results, ret, call, app>>

NextLevel == EstimateLevel

SpecLevel == InitLevel /\ [][NextLevel]_vars

\* the keyword sets in priority order, with the label of each
PrioritySets == <<InternWords, EntryWords, SeniorWords, DirectorWords, ExecutiveWords>>
PriorityLabels == <<L_Internship, L_Entry, L_MidSenior, L_Director, L_Executive>>

\* the text classified: lower-cased description, a blank, lower-cased title,
\* a missing part counting as empty
LevelText(job_description, job_title) ==
    Lower((IF isna(job_description) THEN <<>> ELSE job_description)
          \o <<" ">>
          \o (IF isna(job_title) THEN <<>> ELSE job_title))

\* the sets with a member occurring in the text
SetsHit(text) ==
    {k \in 1..Len(PrioritySets) : \E w \in PrioritySets[k] : Contains(text, w)}

\* C8: the label is that of the first keyword set, in the order Internship,
\* Entry level, Mid-Senior level, Director, Executive, with a member
\* occurring in the text, "Mid-Senior level" when no keyword occurs; a text
\* with keywords of several sets gets the label of the highest-priority
\* set, and the result is always one of the five labels.
C8_FirstSetWins ==
    pc = "return" =>
        LET hit == SetsHit(LevelText(call.job_description, call.job_title))
        IN  /\ retval \in {PriorityLabels[k] : k \in 1..Len(PriorityLabels)}
            /\ hit = {} => retval = L_MidSenior
            /\ hit # {} =>
                  \E k \in hit : /\ \A j \in hit : k <= j
                                 /\ retval = PriorityLabels[k]

\* a text with keywords of the Entry, Director and Executive sets, labelled
\* Entry level
C8_Witness ==
    /\ pc = "return"
    /\ SetsHit(LevelText(call.job_description, call.job_title)) = {2, 4, 5}
    /\ retval = L_Entry

---------------------------------------------------------------------------
(* calculate_experience_match applied to one number of years and one level *)

MaxYearTenths == 350    \* résumé years range over 0.0, 0.1, ... up to this

L_Senior == <<"S","e","n","i","o","r">>

LevelInputs == DOMAIN level_ranges \cup {NaN, None, <<>>, L_Senior}

InitExp ==
    /\ pc = "call"
    /\ call \in [resume_years : 0..MaxYearTenths, job_level : LevelInputs]
    /\ retval = Idle
    /\ resume_data = Idle
    /\ jobs_df = Idle
    /\ top_n = 0
    /\ min_score = 0
    /\ idx = 0
    /\ results = Idle
    /\ ret = Idle
    /\ app = Idle

CalcExperienceMatch ==
    /\ pc = "call"
    /\ retval' = calculate_experience_match(call.resume_years, call.job_level)
    /\ pc' = "return"
    /\ UNCHANGED <<resume_data, jobs_df, top_n, min_score, idx, results, ret, call, app>>

NextExp == CalcExperienceMatch

SpecExp == InitExp /\ [][NextExp]_vars

\* the bands of the levels, in tenths of a year: <<level, min, max>>
Bands ==
    { <<L_Internship, 0, 10>>, <<L_Entry, 0, 20>>, <<L_Associate, 10, 30>>,
      <<L_MidSenior, 30, 80>>, <<L_Director, 80, 150>>, <<L_Executive, 150, 300>> }

\* C9: 1.0 inside the band of the level, bounds included; below min 0.95,
\* 0.85, 0.70, 0.55 or 0.30 for a gap <= 0.5, <= 1.0, <= 1.5, <= 2.0 or
\* larger; above max 0.90, 0.75, 0.60 or 0.40 for a gap <= 1.0, <= 2.0,
\* <= 3.0 or larger; 0.5 for an unknown or missing level.  Years and gaps
\* are in tenths of a year, scores in hundredths.
C9_ExperienceSteps ==
    pc = "return" =>
        LET y == call.resume_years
            score == (retval * 100) \div ScoreUnit
        IN  /\ retval * 100 = score * ScoreUnit
            /\ \A b \in Bands : call.job_level = b[1] =>
                  /\ (b[2] <= y /\ y <= b[3]) => score = 100
                  /\ y < b[2] =>
                        LET gap == b[2] - y
                        IN  score = CASE gap <= 5 -> 95
                                      [] gap > 5 /\ gap <= 10 -> 85
                                      [] gap > 10 /\ gap <= 15 -> 70
                                      [] gap > 15 /\ gap <= 20 -> 55
                                      [] OTHER -> 30
                  /\ y > b[3] =>
                        LET gap == y - b[3]
                        IN  score = CASE gap <= 10 -> 90
                                      [] gap > 10 /\ gap <= 20 -> 75
                                      [] gap > 20 /\ gap <= 30 -> 60
                                      [] OTHER -> 40
            /\ (\A b \in Bands : call.job_level # b[1]) => score = 50

\* 1.0 years against "Mid-Senior level": a gap of exactly 2.0, scored 0.55
C9_Witness ==
    /\ pc = "return"
    /\ call.resume_years = 10
    /\ call.job_level = L_MidSenior
    /\ retval * 100 = 55 * ScoreUnit

---------------------------------------------------------------------------
(* Title resolution (calculate_overall_score, lines 173-178) applied to one
   posting *)

Pad == 3            \* how far a run of characters exceeds a limit

Fill(c, n) == [i \in 1..n |-> c]

\* `lead` blanks, `body` letters, `gap` blanks, `rest` letters, and
\* optionally a second line
Description(lead, body, gap, rest, second_line) ==
    Fill(" ", lead) \o Fill("a", body) \o Fill(" ", gap) \o Fill("b", rest)
    \o (IF second_line THEN <<"\n", "c", "c">> ELSE <<>>)

LeadSizes == {0, 1, TitleLimit, ScanLimit - 1, ScanLimit, ScanLimit + Pad}
BodySizes == {0, 1, TitleLimit - 1, TitleLimit, TitleLimit + 1, ScanLimit + Pad}
GapSizes == {0, 1, TitleLimit + 1}
RestSizes == {0, Pad}

ResolveDescriptions ==
    {NaN} \cup
    { Description(lead, body, gap, rest, second_line) :
        lead \in LeadSizes, body \in BodySizes, gap \in GapSizes,
        rest \in RestSizes, second_line \in BOOLEAN }

ResolveCategories == {NaN, None, <<>>, T_DataEngineer}

InitResolve ==
    /\ pc = "call"
    /\ call \in { JobRow(category, description, NaN, C_Acme) :
                    category \in ResolveCategories,
                    description \in ResolveDescriptions }
    /\ retval = Idle
    /\ resume_data = Idle
    /\ jobs_df = Idle
    /\ top_n = 0
    /\ min_score = 0
    /\ idx = 0
    /\ results = Idle
    /\ ret = Idle
    /\ app = Idle

CalcResolveTitle ==
    /\ pc = "call"
    /\ retval' = ResolveTitle(call)
    /\ pc' = "return"
    /\ UNCHANGED <<resume_data, jobs_df, top_n, min_score, idx, results, ret, call, app>>

NextResolve == CalcResolveTitle

SpecResolve == InitResolve /\ [][NextResolve]_vars

TitleMissing(job_row) == isna(job_row.category) \/ job_row.category = <<>>

\* the length of the first newline-delimited line of text[:limit]
LineLength(text, limit) ==
    LET n == Min(Len(text), limit)
        breaks == {i \in 1..n : text[i] = "\n"}
    IN  IF breaks = {} THEN n
        ELSE (CHOOSE i \in breaks : \A j \in breaks : i <= j) - 1

\* t is text[1..line], trimmed of surrounding whitespace and then cut to
\* TitleLimit characters
IsTrimmedLine(t, text, line) ==
    LET solid == {j \in 1..line : text[j] \notin Whitespace}
    IN  IF solid = {} THEN t = <<>>
        ELSE LET lo == CHOOSE i \in solid : \A j \in solid : i <= j
                 hi == CHOOSE i \in solid : \A j \in solid : j <= i
             IN  /\ Len(t) = Min(hi - lo + 1, TitleLimit)
                 /\ \A j \in 1..Len(t) : t[j] = text[lo + j - 1]

\* C7 (as amended): for a posting whose title is missing or empty the
\* resolved title is the first newline-delimited line of the first 200
\* characters of the description, trimmed of surrounding whitespace and
\* then truncated to 100 characters; it is "Unknown Position" when the
\* description is absent.
C7_FirstLineOfScanAmended ==
    (pc = "return" /\ TitleMissing(call)) =>
        IF isna(call.job_description) THEN retval = UnknownPosition
        ELSE IsTrimmedLine(retval, call.job_description,
                           LineLength(call.job_description, ScanLimit))

\* an untitled posting whose first line runs past character 200 and whose
\* title, non-empty and shorter than 100 characters, is not the trimmed and
\* truncated whole line
C7_Witness ==
    /\ pc = "return"
    /\ TitleMissing(call)
    /\ ~isna(call.job_description)
    /\ LineLength(call.job_description, Len(call.job_description)) > ScanLimit
    /\ Len(retval) > 0
    /\ Len(retval) < TitleLimit
    /\ ~IsTrimmedLine(retval, call.job_description,
                      LineLength(call.job_description, Len(call.job_description)))

\* C7 as stated: the whole first line of the description, trimmed and then
\* truncated to 100 characters, whatever its length or leading whitespace
C7_FirstLineOriginal ==
    (pc = "return" /\ TitleMissing(call)) =>
        IF isna(call.job_description) THEN retval = UnknownPosition
        ELSE IsTrimmedLine(retval, call.job_description,
                           LineLength(call.job_description, Len(call.job_description)))

---------------------------------------------------------------------------
(* pdf_handler.extract_text_from_pdf *)

MaxPages == 2       \* most pages of an uploaded PDF

ErrorPrefix == <<"E","r","r","o","r"," ","r","e","a","d","i","n","g"," ","f","i","l","e","."," ","A","n"," ","e","r","r","o","r"," ","o","c","c","u","r","e","d",":"," ">>
E_Stream == <<"S","t","r","e","a","m"," ","h","a","s"," ","e","n","d","e","d"," ","u","n","e","x","p","e","c","t","e","d","l","y">>
P_Name == <<"J","a","n","e"," ","D","o","e"," ">>
P_Skills == <<"P","y","t","h","o","n"," ","S","Q","L">>

\* a page whose extract_text() raises
Raises == <<"<raises>">>

\* what page.extract_text() gives: text, nothing, or an exception
PageOutcomes == {P_Name, P_Skills, <<>>, None, Raises}

\* an uploaded file: whether PdfReader accepts it, and its pages
PdfFiles ==
    { [valid |-> FALSE, pages |-> <<>>] } \cup
    { [valid |-> TRUE, pages |-> pages] :
        pages \in UNION {[1..n -> PageOutcomes] : n \in 0..MaxPages} }

\* the try block raises: PdfReader rejects the file or a page fails
ReadRaises(pdf_file) ==
    \/ ~pdf_file.valid
    \/ \E i \in 1..Len(pdf_file.pages) : pdf_file.pages[i] = Raises

\* `if page_text:`
Truthy(page_text) == page_text # None /\ page_text # <<>>

extract_text_from_pdf(pdf_file) ==
    IF ReadRaises(pdf_file) THEN ErrorPrefix \o E_Stream
    ELSE Strip(JoinSpace(SelectSeq(pdf_file.pages, Truthy)))

---------------------------------------------------------------------------
(* groq_analyzer.analyze_resume *)

\* Python's None where the other values are dicts or objects
Nothing == [none |-> TRUE]

max_char == 4000

\* text.rfind(' '): 0-based index of the last blank, -1 when there is none
rfind_space(text) ==
    LET hits == {i \in 1..Len(text) : text[i] = " "}
    IN IF hits = {} THEN 0 - 1
       ELSE (CHOOSE i \in hits : \A j \in hits : j <= i) - 1

\* STEP 1: the résumé text that goes into the prompt
prepared_text(resume_text) ==
    IF Len(resume_text) <= max_char THEN resume_text
    ELSE LET truncated == Prefix(resume_text, max_char)
             last_spaced_index == rfind_space(truncated)
         IN IF last_spaced_index > 0 THEN Prefix(truncated, last_spaced_index)
            ELSE truncated

\* Python values as json.loads builds them, each with its type; numbers are
\* in tenths, as Years(n)
JNull == [t |-> "null"]
JNum(n) == [t |-> "number", num |-> n]
JStr(s) == [t |-> "str", text |-> s]
JList(l) == [t |-> "list", items |-> l]
JDict(d) == [t |-> "dict", dict |-> d]

\* a document json.loads rejects with JSONDecodeError
NotJson == [t |-> "invalid"]

\* client.chat.completions.create raises
ApiError == [raises |-> TRUE]

\* a reply of the model: the document `body`, inside a ```json fence, a bare
\* ``` fence or no fence, with or without prose around it
Reply(chatter, fence, body) ==
    [raises |-> FALSE, chatter |-> chatter, fence |-> fence, body |-> body]

\* STEP 4 and json.loads: what is left of the content is parsed
CleanAndParse(content) ==
    IF content.fence = "json" THEN content.body
    ELSE IF content.fence = "plain" THEN content.body
    ELSE IF content.chatter THEN NotJson
    ELSE content.body

Put(d, key, value) ==
    [k \in DOMAIN d \cup {key} |-> IF k = key THEN value ELSE d[k]]

DigitChars == <<"0","1","2","3","4","5","6","7","8","9">>

DigitOf(c) == (CHOOSE i \in 1..10 : DigitChars[i] = c) - 1

IsDigits(s) ==
    /\ Len(s) > 0
    /\ \A i \in 1..Len(s) : \E k \in 1..10 : DigitChars[k] = s[i]

RECURSIVE IntOf(_)
IntOf(s) ==
    IF s = <<>> THEN 0
    ELSE IntOf(SubSeq(s, 1, Len(s) - 1)) * 10 + DigitOf(s[Len(s)])

\* float(value): a number stays, a string of digits with an optional sign
\* and blanks around it is read, text without digits, None, a list and a
\* dict raise
float(value) ==
    IF value.t = "number" THEN [ok |-> TRUE, value |-> value.num]
    ELSE IF value.t = "str" THEN
        LET s == Strip(value.text)
            signed == Len(s) > 0 /\ s[1] \in {"-", "+"}
            digits == IF signed THEN SubSeq(s, 2, Len(s)) ELSE s
        IN IF IsDigits(digits)
           THEN [ok |-> TRUE,
                 value |-> IF signed /\ s[1] = "-" THEN 0 - Years(IntOf(digits))
                           ELSE Years(IntOf(digits))]
           ELSE [ok |-> FALSE]
    ELSE [ok |-> FALSE]

\* len(value); None and a number raise
len(value) ==
    IF value.t = "list" THEN [ok |-> TRUE, value |-> Len(value.items)]
    ELSE IF value.t = "str" THEN [ok |-> TRUE, value |-> Len(value.text)]
    ELSE IF value.t = "dict" THEN [ok |-> TRUE, value |-> Cardinality(DOMAIN value.dict)]
    ELSE [ok |-> FALSE]

required_fields ==
    <<"skills", "experience_years", "past_roles", "current_role",
      "domain", "projects", "education_level", "technologies",
      "career_level", "work_preferences", "key_achievements", "desired_roles">>

list_fields ==
    {"skills", "past_roles", "projects", "technologies",
     "key_achievements", "desired_roles"}

NotSpecified == <<"N","o","t"," ","s","p","e","c","i","f","i","e","d">>

\* every missing field gets the text default
default_for_AllText(field) == JStr(NotSpecified)

\* STEP 7: the default of a missing field
default_for(field) ==
    IF field \in list_fields THEN JList(<<>>)
    ELSE IF field = "experience_years" THEN JNum(0)
    ELSE JStr(NotSpecified)

\* STEP 7: every required field the dict lacks is added
with_required_fields(result) ==
    [field \in DOMAIN result \cup {required_fields[i] : i \in 1..Len(required_fields)} |->
        IF field \in DOMAIN result THEN result[field] ELSE default_for(field)]

\* how a call ends: a return value, or an exception that leaves the function;
\* `sent` is the résumé text of the prompt
Returned(sent, value) == [kind |-> "return", value |-> value, sent |-> sent]
Raised(sent) == [kind |-> "raise", sent |-> sent]

\* STEP 6 and 7 on a parsed dict
validate_and_fix(sent, result) ==
    LET has_years == "experience_years" \in DOMAIN result
        as_float == IF has_years THEN float(result["experience_years"])
                    ELSE [ok |-> TRUE, value |-> 0]
    IN IF ~as_float.ok THEN Raised(sent)
       ELSE LET floated == IF has_years
                           THEN Put(result, "experience_years", JNum(as_float.value))
                           ELSE result
            IN IF as_float.value = 0 THEN
                   LET num_roles == len(Get(floated, "past_roles", JList(<<>>)))
                   IN IF ~num_roles.ok THEN Raised(sent)
                      ELSE IF num_roles.value > 0
                      THEN Returned(sent, with_required_fields(
                               Put(floated, "experience_years",
                                   JNum((num_roles.value * Years(3)) \div 2))))
                      ELSE Returned(sent, with_required_fields(floated))
               ELSE Returned(sent, with_required_fields(floated))

\* `response` is what the chat completion call gives for the prompt
analyze_resume(resume_text, response) ==
    LET sent == prepared_text(resume_text)
    IN IF response.raises THEN Returned(sent, Nothing)
       ELSE LET result == CleanAndParse(response)
            IN IF result = NotJson THEN Returned(sent, Nothing)
               ELSE IF result.t # "dict" THEN Raised(sent)
               ELSE validate_and_fix(sent, result.dict)

\* replies of the model

MaxMissing == 1     \* most fields a reply leaves out besides the two below

W_Data == <<"D","a","t","a">>
W_Bachelors == <<"B","a","c","h","e","l","o","r","s">>
W_Mid == <<"M","i","d">>
W_Remote == <<"R","e","m","o","t","e">>
W_Five == <<"f","i","v","e">>
W_Three == <<" ","3"," ">>
W_MinusTwo == <<"-","2">>
W_Pipeline == <<"B","u","i","l","t"," ","E","T","L"," ","p","i","p","e","l","i","n","e">>

\* the key is not in the reply
Absent == [t |-> "absent"]

\* a reply dict with every field, as the prompt asks for it
FullDict ==
    [ skills |-> JList(<<S_Python, S_SQL>>),
      experience_years |-> JNum(Years(5)),
      past_roles |-> JList(<<R_Analyst>>),
      current_role |-> JStr(R_DataEngineer),
      domain |-> JStr(W_Data),
      projects |-> JList(<<W_Pipeline>>),
      education_level |-> JStr(W_Bachelors),
      technologies |-> JList(<<S_Spark>>),
      career_level |-> JStr(W_Mid),
      work_preferences |-> JStr(W_Remote),
      key_achievements |-> JList(<<W_Pipeline>>),
      desired_roles |-> JList(<<R_DataEngineer>>) ]

YearsGiven ==
    { Absent, JNum(0), JNum(Years(5)), JNum(0 - Years(2)),
      JStr(W_Three), JStr(W_MinusTwo), JStr(W_Five), JNull }

RolesGiven ==
    { Absent, JList(<<>>), JList(<<R_Analyst, R_JavaDev>>), JStr(R_Analyst), JNull }

SkillsGiven == { JList(<<S_Python, S_SQL>>), JStr(P_Skills) }

OtherFields ==
    {"current_role", "domain", "projects", "education_level", "technologies",
     "career_level", "work_preferences", "key_achievements", "desired_roles"}

MissingSets == {m \in SUBSET OtherFields : Cardinality(m) <= MaxMissing}

Dict(years, roles, skills, missing) ==
    LET given == [FullDict EXCEPT !["experience_years"] = years,
                                  !["past_roles"] = roles,
                                  !["skills"] = skills]
        keys == {k \in DOMAIN given : given[k] # Absent /\ k \notin missing}
    IN [k \in keys |-> given[k]]

Dicts ==
    { Dict(years, roles, skills, missing) :
        years \in YearsGiven, roles \in RolesGiven,
        skills \in SkillsGiven, missing \in MissingSets }

\* valid JSON that is no object
NonDicts == { JList(<<>>), JStr(W_Five), JNum(Years(5)), JNull }

Wrapped ==
    { Reply(chatter, fence, body) :
        chatter \in BOOLEAN, fence \in {"none", "json", "plain"},
        body \in {NotJson, JDict(FullDict), JDict(Dict(Absent, Absent, JList(<<>>), {}))} }

Responses ==
    {ApiError} \cup Wrapped
    \cup { Reply(FALSE, "none", body) : body \in NonDicts }
    \cup { Reply(FALSE, "none", JDict(d)) : d \in Dicts }

\* résumé texts longer than max_char: no blank, a blank at index 0 only, and
\* blanks further in
LongTexts ==
    { Fill("a", max_char + Pad),
      <<" ">> \o Fill("a", max_char + Pad),
      Fill("a", max_char - Pad) \o <<" ">> \o Fill("b", Pad + Pad) }

InitAnalyze ==
    /\ pc = "call"
    /\ call \in ( [resume_text : {P_Name, P_Skills}, response : Responses] \cup
                  [resume_text : LongTexts, response : {ApiError, Reply(FALSE, "none", JDict(FullDict))}] )
    /\ retval = Idle
    /\ resume_data = Idle
    /\ jobs_df = Idle
    /\ top_n = 0
    /\ min_score = 0
    /\ idx = 0
    /\ results = Idle
    /\ ret = Idle
    /\ app = Idle

CalcAnalyze ==
    /\ pc = "call"
    /\ retval' = analyze_resume(call.resume_text, call.response)
    /\ pc' = "return"
    /\ UNCHANGED <<resume_data, jobs_df, top_n, min_score, idx, results, ret, call, app>>

NextAnalyze == CalcAnalyze

SpecAnalyze == InitAnalyze /\ [][NextAnalyze]_vars

\* a call that handed back a profile
ReturnedProfile ==
    /\ pc = "return"
    /\ retval.kind = "return"
    /\ retval.value # Nothing

\* the JSON object of the model's reply
GivenDict == CleanAndParse(call.response).dict

\* the ResumeProfile default of a field by its type: a list, a decimal, a text
ProfileDefault(field) ==
    IF field \in {"skills", "past_roles", "projects", "technologies",
                  "key_achievements", "desired_roles"}
    THEN JList(<<>>)
    ELSE IF field = "experience_years" THEN JNum(0)
    ELSE JStr(<<"N","o","t"," ","s","p","e","c","i","f","i","e","d">>)

RequiredSet == {required_fields[i] : i \in 1..Len(required_fields)}

\* entries of the past_roles the reply gave (characters, when it gave a
\* text), none when it gave no past_roles
RolesCount ==
    IF "past_roles" \notin DOMAIN GivenDict THEN 0
    ELSE IF GivenDict["past_roles"].t = "list" THEN Len(GivenDict["past_roles"].items)
    ELSE Len(GivenDict["past_roles"].text)

\* the reply omitted experience_years or gave a zero
YearsOmittedOrZero ==
    \/ "experience_years" \notin DOMAIN GivenDict
    \/ GivenDict["experience_years"] = JNum(0)

\* the reply gave experience_years below zero, as a number or as the text of one
YearsBelowZero ==
    /\ "experience_years" \in DOMAIN GivenDict
    /\ LET given == GivenDict["experience_years"]
       IN \/ given.t = "number" /\ given.num < 0
          \/ given.t = "str" /\ \E i \in 1..Len(given.text) : given.text[i] = "-"

\* C13 (amended): every returned profile has the twelve fields; a field the
\* reply omitted holds its default (empty list, "Not specified"), except
\* experience_years, which when omitted or zero holds 1.5 years for each
\* past_roles entry of the reply (0.0 with none); experience_years is a
\* decimal, the reply's own number when that is not zero, and it is
\* non-negative whenever the reply gave no value below zero.
C13_ProfileInvariantAmended ==
    ReturnedProfile =>
        LET profile == retval.value
            years == profile["experience_years"]
        IN /\ RequiredSet \subseteq DOMAIN profile
           /\ \A field \in RequiredSet \ (DOMAIN GivenDict \cup {"experience_years"}) :
                  profile[field] = ProfileDefault(field)
           /\ years.t = "number"
           /\ YearsOmittedOrZero => years.num = (RolesCount * Years(3)) \div 2
           /\ ("experience_years" \in DOMAIN GivenDict
               /\ GivenDict["experience_years"].t = "number"
               /\ GivenDict["experience_years"].num # 0) =>
                  years = GivenDict["experience_years"]
           /\ YearsBelowZero \/ years.num >= 0

\* a returned profile for a reply that left out experience_years and another
\* field and listed past roles: the years are estimated from the roles
C13_Witness ==
    /\ ReturnedProfile
    /\ "experience_years" \notin DOMAIN GivenDict
    /\ RequiredSet \ (DOMAIN GivenDict \cup {"experience_years"}) # {}
    /\ "past_roles" \in DOMAIN GivenDict
    /\ GivenDict["past_roles"] = JList(<<R_Analyst, R_JavaDev>>)
    /\ retval.value["experience_years"] = JNum(Years(3))

\* C13 as stated: every returned profile has the twelve fields, every field
\* the reply omitted holds its default (empty list, 0.0, "Not specified"),
\* and experience_years is a non-negative decimal
C13_ProfileInvariantOriginal ==
    ReturnedProfile =>
        LET profile == retval.value
        IN /\ RequiredSet \subseteq DOMAIN profile
           /\ \A field \in RequiredSet \ DOMAIN GivenDict :
                  profile[field] = ProfileDefault(field)
           /\ profile["experience_years"].t = "number"
           /\ profile["experience_years"].num >= 0

---------------------------------------------------------------------------
(* app.py: one run of the script *)

SliderMin == 5
SliderMax == 30

\* what the chat completion call gives in a run of the script
AppResponses ==
    { ApiError,
      Reply(TRUE, "none", JDict(FullDict)),
      Reply(FALSE, "json", JDict(FullDict)),
      Reply(FALSE, "none", JList(<<>>)),
      Reply(FALSE, "none", JDict(Dict(JStr(W_Five), JList(<<R_Analyst>>),
                                      JList(<<S_Python>>), {}))),
      Reply(FALSE, "none", JDict(Dict(Absent, JList(<<R_Analyst, R_JavaDev>>),
                                      JList(<<S_Python>>), {"domain"}))),
      Reply(FALSE, "none", JDict(Dict(JNum(0 - Years(2)), Absent,
                                      JStr(P_Skills), {}))) }

InitApp ==
    /\ pc = "script"
    /\ app \in [ uploaded_file : {Nothing} \cup PdfFiles,
                 clicked : BOOLEAN,
                 num_results : SliderMin..SliderMax,
                 resume_text : {None},
                 response : {Nothing},
                 analyzer_calls : {<<>>},
                 matcher_calls : {<<>>},
                 shown : {<<>>} ]
    /\ resume_data = Nothing
    /\ jobs_df = Idle
    /\ top_n = 0
    /\ min_score = 0
    /\ idx = 0
    /\ results = Idle
    /\ ret = Idle
    /\ call = Idle
    /\ retval = Idle

\* lines 79-80: nothing uploaded
AppNoUpload ==
    /\ pc = "script"
    /\ app.uploaded_file = Nothing
    /\ app' = [app EXCEPT !.shown = Append(@, "info: upload your resume")]
    /\ pc' = "end"
    /\ UNCHANGED <<resume_data, jobs_df, top_n, min_score, idx, results, ret, call, retval>>

\* line 23: a file is there and the button was not pressed
AppNoClick ==
    /\ pc = "script"
    /\ app.uploaded_file # Nothing
    /\ ~app.clicked
    /\ pc' = "end"
    /\ UNCHANGED <<app, resume_data, jobs_df, top_n, min_score, idx, results, ret, call, retval>>

\* line 27
AppExtract ==
    /\ pc = "script"
    /\ app.uploaded_file # Nothing
    /\ app.clicked
    /\ app' = [app EXCEPT !.resume_text = extract_text_from_pdf(app.uploaded_file)]
    /\ pc' = "analyze"
    /\ UNCHANGED <<resume_data, jobs_df, top_n, min_score, idx, results, ret, call, retval>>

\* lines 30-33: analyze_resume returns None; st.error, st.stop()
AppAnalyzeNone ==
    /\ pc = "analyze"
    /\ \E response \in AppResponses :
        LET outcome == analyze_resume(app.resume_text, response)
        IN /\ outcome.kind = "return"
           /\ outcome.value = Nothing
           /\ app' = [app EXCEPT !.response = response,
                                 !.analyzer_calls = Append(@, app.resume_text),
                                 !.shown = Append(@, "error: Resume analysis failed. Please try again.")]
    /\ resume_data' = Nothing
    /\ pc' = "stopped"
    /\ UNCHANGED <<jobs_df, top_n, min_score, idx, results, ret, call, retval>>

\* lines 30, 76-77: analyze_resume raises (float() of the model's
\* experience_years, a reply that is no JSON object)
AppAnalyzeRaises ==
    /\ pc = "analyze"
    /\ \E response \in AppResponses :
        LET outcome == analyze_resume(app.resume_text, response)
        IN /\ outcome.kind = "raise"
           /\ app' = [app EXCEPT !.response = response,
                                 !.analyzer_calls = Append(@, app.resume_text),
                                 !.shown = Append(@, "error: Something went wrong")]
    /\ pc' = "failed"
    /\ UNCHANGED <<resume_data, jobs_df, top_n, min_score, idx, results, ret, call, retval>>

\* lines 30-31: analyze_resume returns a profile
AppAnalyzeProfile ==
    /\ pc = "analyze"
    /\ \E response \in AppResponses :
        LET outcome == analyze_resume(app.resume_text, response)
        IN /\ outcome.kind = "return"
           /\ outcome.value # Nothing
           /\ app' = [app EXCEPT !.response = response,
                                 !.analyzer_calls = Append(@, app.resume_text)]
           /\ resume_data' = outcome.value
    /\ pc' = "matcher"
    /\ UNCHANGED <<jobs_df, top_n, min_score, idx, results, ret, call, retval>>

\* lines 36-37: JobMatcher(csv_path) loads the catalog
AppMatcherLoaded ==
    /\ pc = "matcher"
    /\ jobs_df' \in UNION {[1..n -> JobPool] : n \in 0..1}
    /\ pc' = "find"
    /\ UNCHANGED <<app, resume_data, top_n, min_score, idx, results, ret, call, retval>>

\* lines 36-37, 76-77: pd.read_csv raises
AppMatcherFails ==
    /\ pc = "matcher"
    /\ app' = [app EXCEPT !.shown = Append(@, "error: Something went wrong")]
    /\ pc' = "failed"
    /\ UNCHANGED <<resume_data, jobs_df, top_n, min_score, idx, results, ret, call, retval>>

\* lines 40-44, 76-77: the name min_score is bound nowhere in app.py (its only
\* assignment, line 19, is commented out), so evaluating the arguments
\* raises NameError before finding_matching_jobs is entered
AppFindMatches ==
    /\ pc = "find"
    /\ app' = [app EXCEPT !.shown = Append(@, "error: Something went wrong")]
    /\ pc' = "failed"
    /\ UNCHANGED <<resume_data, jobs_df, top_n, min_score, idx, results, ret, call, retval>>

NextApp ==
    \/ AppNoUpload
    \/ AppNoClick
    \/ AppExtract
    \/ AppAnalyzeNone
    \/ AppAnalyzeRaises
    \/ AppAnalyzeProfile
    \/ AppMatcherLoaded
    \/ AppMatcherFails
    \/ AppFindMatches

SpecApp == InitApp /\ [][NextApp]_vars

\* text extraction was run on a file it could not read
ExtractionFailed ==
    /\ pc \notin {"script", "end"}
    /\ ReadRaises(app.uploaded_file)

\* C10: after a failed PDF text extraction neither the résumé analyzer nor
\* finding_matching_jobs is ever invoked.
C10_NoCoreAfterFailedExtraction ==
    ExtractionFailed => (app.analyzer_calls = <<>> /\ app.matcher_calls = <<>>)

text_fields ==
    {"current_role", "domain", "education_level", "career_level", "work_preferences"}

\* a value of the reply that cannot stand in the field of a profile: a list
\* field that is no list, a text field that is no text, experience_years
\* that float() cannot read or that is negative
BadValue(field, value) ==
    IF field \in list_fields THEN value.t # "list"
    ELSE IF field \in text_fields THEN value.t # "str"
    ELSE IF field = "experience_years"
    THEN ~float(value).ok \/ float(value).value < 0
    ELSE FALSE

\* the reply is valid JSON and malformed as a profile
Malformed(result) ==
    \/ result.t # "dict"
    \/ \E field \in DOMAIN result.dict : BadValue(field, result.dict[field])

\* the external analysis gave no usable profile
Unusable(response) ==
    \/ response.raises
    \/ CleanAndParse(response) = NotJson
    \/ Malformed(CleanAndParse(response))

FailedMessage == <<"error: Resume analysis failed. Please try again.">>

\* C11: once the analysis of an extracted résumé text has given no usable
\* profile (API error, a reply that is no valid JSON, malformed data) the
\* run holds no profile, has
\* stopped on the "Resume analysis failed" message and has neither built the
\* matcher nor called it.
C11_UnusableReplyGivesNoProfile ==
    (/\ pc \in {"stopped", "failed", "matcher", "find"}
     /\ ~ReadRaises(app.uploaded_file)
     /\ Unusable(app.response)) =>
        /\ resume_data = Nothing
        /\ pc = "stopped"
        /\ app.shown = FailedMessage
        /\ jobs_df = Idle
        /\ app.matcher_calls = <<>>

NoMatchesMessage == "warning: No job matches found. Try lowering the minimum match score."

\* C12: a run that comes to the matching step with a readable résumé, a
\* usable profile and an empty catalog, where no posting can reach min_score
\* whatever its value, calls finding_matching_jobs once and ends in the
\* "no matches" state, showing the "No job matches found" warning and no
\* error message.
C12_EmptyRankingEndsInNoMatches ==
    [][(/\ pc = "find"
        /\ ~ReadRaises(app.uploaded_file)
        /\ ~Unusable(app.response)
        /\ Len(jobs_df) = 0) =>
          /\ pc' = "no_matches"
          /\ Len(app'.matcher_calls) = 1
          /\ app'.shown = <<NoMatchesMessage>>]_vars

=============================================================================
